---- MODULE Spec2Model ----
(***************************************************************************)
(* Model of the lunatic thalo host API (crates/lunatic-thalo-api):         *)
(* guest sessions load an aggregate module, initialise instances for a     *)
(* stream, execute commands against them and persist the decided events    *)
(* in the shared event table; variable-length results are handed back      *)
(* through the per-session scratch buffer (EventsScratch).                 *)
(***************************************************************************)
EXTENDS Integers, Sequences, FiniteSets, TLC

\* ------------------------------------------------------------------ bounds
\* Host calls the sessions may start, all together.
MaxOps == 6
\* Host calls the sessions may start after the warm start, all together.
MaxWarmOps == 3
\* Modules one session may load.
MaxModules == 2
\* Largest fuel budget a module is loaded with, in guest calls.
MaxFuel == 6
\* Longest string handed to ModuleName::new, in characters.
MaxNameLen == 4
\* Connections the pool the sessions draw from can hand out at a time.
PoolSize == 1

\* ------------------------------------------------------------- value sets
Sessions == {"p1", "p2"}
Streams == {"acct-1", "acct-2"}
Ids == {"id-1", ""}
CommandNames == {"deposit", "transfer", "audit", "close", "corrupt"}
Payloads == {<<100>>}
FuelChoices == {MaxFuel}
ReadLens == {0, 5, 64}
Files == {"aggregate.wasm", "missing.wasm", "invalid.wasm", "no-exports.wasm"}
FromVersions == {-1, 1}

None == [none |-> TRUE]

\* --------------------------------------------------------------- helpers
RECURSIVE LE(_, _)
\* n as w little-endian bytes (bincode's fixed-width integer encoding)
LE(n, w) == IF w = 0 THEN <<>> ELSE <<n % 256>> \o LE(n \div 256, w - 1)

Min(a, b) == IF a <= b THEN a ELSE b

RECURSIVE Flatten(_)
Flatten(ss) == IF ss = <<>> THEN <<>> ELSE Head(ss) \o Flatten(Tail(ss))

\* The UTF-8 bytes of the strings the model uses.
Utf8(s) ==
  CASE s = "" -> <<>>
    [] s = "id-1" -> <<105, 100, 45, 49>>
    [] s = "dep" -> <<100, 101, 112>>
    [] s = "fee" -> <<102, 101, 101>>
    [] s = "bad" -> <<98, 97, 100>>
    [] s = "unknown command" ->
         <<117, 110, 107, 110, 111, 119, 110, 32, 99, 111, 109, 109, 97, 110, 100>>
    [] s = "unknown event" ->
         <<117, 110, 107, 110, 111, 119, 110, 32, 101, 118, 101, 110, 116>>
    [] s = "command failed: no" ->
         <<99, 111, 109, 109, 97, 110, 100, 32, 102, 97, 105, 108, 101, 100, 58, 32, 110, 111>>
    [] s = "error: id" -> <<101, 114, 114, 111, 114, 58, 32, 105, 100>>
    [] s = "all fuel consumed" ->
         <<97, 108, 108, 32, 102, 117, 101, 108, 32, 99, 111, 110, 115, 117, 109, 101, 100>>

\* ------------------------------------------------- wit_aggregate: errors
\* Display of the guest's Error variant.
ErrorDisplay(e) ==
  CASE e = "UnknownCommand" -> "unknown command"
    [] e = "UnknownEvent" -> "unknown event"
    [] e = "Command" -> "command failed: no"
    [] e = "Custom" -> "error: id"

TrapDisplay == "all fuel consumed"

Ok(v) == [kind |-> "ok", val |-> v]
Err(e) == [kind |-> "err", val |-> e]
Trap == [kind |-> "trap", val |-> TrapDisplay]

\* ------------------------------------------ the guest aggregate (sandbox)
\* A representative aggregate behind the init/apply/handle contract: its
\* state is the id followed by every event folded in so far, and a deposit
\* event carries the amount and the length of the state it was decided on.
Ev(t, p) == [event_type |-> t, payload |-> p]

GuestInit(id) == IF id = "" THEN Err("Custom") ELSE Ok(Utf8(id))

EventBytes(e) == Utf8(e.event_type) \o e.payload

RECURSIVE GuestApply(_, _)
GuestApply(state, events) ==
  IF events = <<>> THEN Ok(state)
  ELSE IF Head(events).event_type = "bad" THEN Err("UnknownEvent")
  ELSE GuestApply(state \o EventBytes(Head(events)), Tail(events))

GuestHandle(state, command) ==
  CASE command.command = "deposit" ->
         Ok(<<Ev("dep", command.payload \o <<Len(state) % 256>>)>>)
    [] command.command = "transfer" ->
         Ok(<<Ev("dep", command.payload \o <<Len(state) % 256>>), Ev("fee", <<1>>)>>)
    [] command.command = "audit" -> Ok(<<>>)
    [] command.command = "close" -> Err("Command")
    [] command.command = "corrupt" -> Ok(<<Ev("bad", command.payload)>>)
    [] OTHER -> Err("UnknownCommand")

\* ------------------------------------------------ wit_aggregate / module
\* One contract call against the module's store: it traps when the fuel
\* budget is used up, otherwise it returns the guest's result.
ContractCall(fuel, res) ==
  IF fuel = 0 THEN [res |-> Trap, fuel |-> 0] ELSE [res |-> res, fuel |-> fuel - 1]

\* An init that takes the guest's refusal for an empty initial state.
ModuleInitLenient(fuel, id) ==
  LET c == ContractCall(fuel, GuestInit(id))
  IN  IF c.res.kind = "ok"
      THEN [res |-> Ok(c.res.val), guest |-> "ok", fuel |-> c.fuel]
      ELSE IF c.res.kind = "err"
      THEN [res |-> Ok(<<>>), guest |-> "ok", fuel |-> c.fuel]
      ELSE [res |-> Err(c.res.val), guest |-> "trap", fuel |-> c.fuel]

\* Module::init: `aggregate.init(..).await??`
ModuleInit(fuel, id) ==
  LET c == ContractCall(fuel, GuestInit(id))
  IN  IF c.res.kind = "ok"
      THEN [res |-> Ok(c.res.val), guest |-> "ok", fuel |-> c.fuel]
      ELSE IF c.res.kind = "err"
      THEN [res |-> Err(ErrorDisplay(c.res.val)), guest |-> "err", fuel |-> c.fuel]
      ELSE [res |-> Err(c.res.val), guest |-> "trap", fuel |-> c.fuel]

\* An apply that hands the guest an empty state instead of the instance's.
InstanceApplyFresh(state, fuel, events) ==
  LET c == ContractCall(fuel, GuestApply(<<>>, events))
  IN  IF c.res.kind = "ok"
      THEN [res |-> Ok(<<>>), guest |-> "ok", state |-> c.res.val, fuel |-> c.fuel]
      ELSE IF c.res.kind = "err"
      THEN [res |-> Err(ErrorDisplay(c.res.val)), guest |-> "apply_err",
            state |-> state, fuel |-> c.fuel]
      ELSE [res |-> Err(c.res.val), guest |-> "apply_trap", state |-> state, fuel |-> c.fuel]

\* An apply that reports success when the guest call failed.
InstanceApplyLenient(state, fuel, events) ==
  LET c == ContractCall(fuel, GuestApply(state, events))
  IN  IF c.res.kind = "ok"
      THEN [res |-> Ok(<<>>), guest |-> "ok", state |-> c.res.val, fuel |-> c.fuel]
      ELSE [res |-> Ok(<<>>), guest |-> "ok", state |-> state, fuel |-> c.fuel]

\* An apply that assigns before it knows the guest returned, so that a failed
\* replay leaves the instance without state.
InstanceApplyClears(state, fuel, events) ==
  LET c == ContractCall(fuel, GuestApply(state, events))
  IN  IF c.res.kind = "ok"
      THEN [res |-> Ok(<<>>), guest |-> "ok", state |-> c.res.val, fuel |-> c.fuel]
      ELSE IF c.res.kind = "err"
      THEN [res |-> Err(ErrorDisplay(c.res.val)), guest |-> "apply_err",
            state |-> <<>>, fuel |-> c.fuel]
      ELSE [res |-> Err(c.res.val), guest |-> "apply_trap", state |-> <<>>, fuel |-> c.fuel]

\* ModuleInstance::apply: the state is replaced only when the guest returned.
InstanceApply(state, fuel, events) ==
  LET c == ContractCall(fuel, GuestApply(state, events))
  IN  IF c.res.kind = "ok"
      THEN [res |-> Ok(<<>>), guest |-> "ok", state |-> c.res.val, fuel |-> c.fuel]
      ELSE IF c.res.kind = "err"
      THEN [res |-> Err(ErrorDisplay(c.res.val)), guest |-> "apply_err",
            state |-> state, fuel |-> c.fuel]
      ELSE [res |-> Err(c.res.val), guest |-> "apply_trap", state |-> state, fuel |-> c.fuel]

\* ModuleInstance::handle
InstanceHandle(state, fuel, command) ==
  LET c == ContractCall(fuel, GuestHandle(state, command))
  IN  IF c.res.kind = "ok"
      THEN [res |-> Ok(c.res.val), guest |-> "ok", fuel |-> c.fuel]
      ELSE IF c.res.kind = "err"
      THEN [res |-> Err(ErrorDisplay(c.res.val)), guest |-> "decide_err", fuel |-> c.fuel]
      ELSE [res |-> Err(c.res.val), guest |-> "decide_trap", fuel |-> c.fuel]

\* A handle_and_apply that takes a refused command for one that decided nothing.
HandleAndApplySwallow(state, fuel, command) ==
  LET h == InstanceHandle(state, fuel, command)
  IN  IF h.res.kind # "ok"
      THEN [res |-> Ok(<<>>), guest |-> h.guest, state |-> state, fuel |-> h.fuel]
      ELSE LET a == InstanceApply(state, h.fuel, h.res.val)
           IN  IF a.res.kind # "ok"
               THEN [res |-> a.res, guest |-> a.guest, state |-> a.state, fuel |-> a.fuel]
               ELSE [res |-> Ok(h.res.val), guest |-> "ok", state |-> a.state,
                     fuel |-> a.fuel]

\* ModuleInstance::handle_and_apply
HandleAndApply(state, fuel, command) ==
  LET h == InstanceHandle(state, fuel, command)
  IN  IF h.res.kind # "ok"
      THEN [res |-> h.res, guest |-> h.guest, state |-> state, fuel |-> h.fuel]
      ELSE LET a == InstanceApply(state, h.fuel, h.res.val)
           IN  IF a.res.kind # "ok"
               THEN [res |-> a.res, guest |-> a.guest, state |-> a.state, fuel |-> a.fuel]
               ELSE [res |-> Ok(h.res.val), guest |-> "ok", state |-> a.state,
                     fuel |-> a.fuel]

\* ------------------------------------------------------------ HashMapId
EmptyTable == [next |-> 0, map |-> <<>>]
Handles(t) == 0 .. (t.next - 1)
TableGet(t, h) == t.map[h + 1]
\* An add that puts the new entry in front of the others, under the first id.
TableAddFront(t, v) == [next |-> t.next + 1, map |-> <<v>> \o t.map]
TableAdd(t, v) == [next |-> t.next + 1, map |-> Append(t.map, v)]
\* A write through a handle that lands in every entry of the table.
TableSetAll(t, h, v) == [t EXCEPT !.map = [i \in DOMAIN t.map |-> v]]
\* get_mut(h) and a write through the reference it returns
TableSet(t, h, v) == [t EXCEPT !.map[h + 1] = v]

\* --------------------------------------------------------- EventsScratch
\* A new scratch whose cursor starts at the end of the buffer.
ScratchNewAtEnd(buffer) == [read_ptr |-> Len(buffer), buffer |-> buffer]

\* EventsScratch::new
ScratchNew(buffer) == [read_ptr |-> 0, buffer |-> buffer]

\* A read that copies from the start of the buffer, whatever the cursor.
ScratchReadFromStart(sc, len) ==
  LET slice == SubSeq(sc.buffer, sc.read_ptr + 1, Len(sc.buffer))
      bytes == Min(len, Len(slice))
  IN  [n |-> bytes, data |-> SubSeq(sc.buffer, 1, bytes),
       scratch |-> [sc EXCEPT !.read_ptr = sc.read_ptr + bytes]]

\* A read that copies but leaves the cursor where it was.
ScratchReadNoAdvance(sc, len) ==
  LET slice == SubSeq(sc.buffer, sc.read_ptr + 1, Len(sc.buffer))
      bytes == Min(len, Len(slice))
  IN  [n |-> bytes, data |-> SubSeq(slice, 1, bytes), scratch |-> sc]

\* EventsScratch::read into a destination of `len` bytes
ScratchRead(sc, len) ==
  LET slice == SubSeq(sc.buffer, sc.read_ptr + 1, Len(sc.buffer))
      bytes == Min(len, Len(slice))
  IN  [n |-> bytes, data |-> SubSeq(slice, 1, bytes),
       scratch |-> [sc EXCEPT !.read_ptr = sc.read_ptr + bytes]]

\* ------------------------------------------------------------- bincode
SerializeString(s) == LE(Len(Utf8(s)), 8) \o Utf8(s)

SerializeEvent(e) ==
  LE(e.version, 8) \o LE(Len(Utf8(e.type)), 8) \o Utf8(e.type)
    \o LE(Len(e.body), 8) \o e.body

SerializeEvents(events) ==
  LE(Len(events), 8) \o Flatten([i \in 1 .. Len(events) |-> SerializeEvent(events[i])])

\* ----------------------------------------------------- the event table
Perms(S) ==
  {f \in [1 .. Cardinality(S) -> S] : \A i, j \in 1 .. Cardinality(S) : f[i] = f[j] => i = j}

\* SELECT version, type, body FROM event WHERE stream = $1 (no ORDER BY):
\* the matching rows, in any order the engine happens to produce.
SelectEvents(table, stream) == Perms({r \in table : r.stream = stream})

Max(S) == CHOOSE x \in S : \A y \in S : y <= x

\* A version query that answers 0 for a stream without events.
SelectMaxVersionZero(table, stream) ==
  LET vs == {r.version : r \in {q \in table : q.stream = stream}}
  IN  IF vs = {} THEN 0 ELSE Max(vs)

\* SELECT MAX(version) ... .unwrap_or(-1)
SelectMaxVersion(table, stream) ==
  LET vs == {r.version : r \in {q \in table : q.stream = stream}}
  IN  IF vs = {} THEN -1 ELSE Max(vs)

\* A fold that binds the version it read, without counting up.
NextVersionStale(version) == version

\* The version bound for the next row of the batch.
NextVersion(version) == version + 1

RECURSIVE BindRows(_, _, _)
\* The fold binding (stream, version, type, body) for every event.
BindRows(stream, version, events) ==
  IF events = <<>> THEN <<>>
  ELSE <<[stream |-> stream, version |-> NextVersion(version),
          type |-> Head(events).event_type, body |-> Head(events).payload]>>
         \o BindRows(stream, NextVersion(version), Tail(events))

\* The statement text as a token list: the header, then one placeholder
\* tuple per event, written one after the other.
InsertQuery(n) == <<"INSERT INTO event VALUES">> \o [i \in 1 .. n |-> "(tuple)"]

\* The engine's grammar for a multi-row VALUES list: tuples separated by ",".
SqlParses(q) ==
  /\ Len(q) >= 2
  /\ q[1] = "INSERT INTO event VALUES"
  /\ \A i \in 2 .. Len(q) : q[i] = (IF i % 2 = 0 THEN "(tuple)" ELSE ",")
  /\ Len(q) % 2 = 0

\* The unique key (stream, version) of the event table.
UniqueViolation(table, rows) ==
  \/ \E i \in 1 .. Len(rows) : \E r \in table :
       r.stream = rows[i].stream /\ r.version = rows[i].version
  \/ \E i, j \in 1 .. Len(rows) :
       i # j /\ rows[i].stream = rows[j].stream /\ rows[i].version = rows[j].version

Range(f) == {f[i] : i \in DOMAIN f}

\* ------------------------------------------------------------------ state
VARIABLES
  db,         \* the event table: a set of rows [stream, version, type, body]
  pool,       \* per session: database_pool is Some
  modules,    \* per session: AggregateModuleResources (each module: its store's fuel)
  instances,  \* per session: AggregateModuleInstanceResources
  scratch,    \* per session: events_scratch, None or [read_ptr, buffer]
  pc,         \* per session: "idle", "select", "insert" (inside execute_command), "fault"
  cur,        \* per session: the locals of the execute_command in flight
  last,       \* the host call that ended last: its session, inputs and outcome
  out,        \* per session: the bytes read_events_data copied out since the last staging
  asked,      \* per session: the lengths read_events_data was asked for since then, summed
  budget,     \* host calls the sessions may still start
  store_lock, \* the Mutex around one module's Store: "free", or the caller holding its guard
  calls,      \* per caller sharing that Store: where its contract call stands
  conns,      \* per session: pooled connections its host call in flight has checked out
  unfinalized, \* a call into that Store was started and its post-return has not run
  module_name \* a string handed to ModuleName::new, and what came back

vars == <<db, pool, modules, instances, scratch, pc, cur, last, out, asked, budget,
          store_lock, calls, conns, unfinalized, module_name>>

NoName == [text |-> <<>>, result |-> "none"]

\* The objects holding an Arc of one module's Mutex<Store>: the Module and the
\* ModuleInstances made from it.
Callers == {"module", "instance-0", "instance-1"}

NoCall == [pc |-> "idle", op |-> "none"]

NoCur ==
  [inst |-> -1, stream |-> "", command |-> "", payload |-> <<>>, events |-> <<>>,
   version |-> -2, pre |-> <<>>]

NoLast ==
  [op |-> "none", session |-> "", status |-> "ret", ret |-> 0, why |-> "", inst |-> -1,
   pre |-> <<>>, events |-> <<>>, base |-> -2, order |-> <<>>, arg |-> "",
   payload |-> <<>>, stream |-> ""]

Init ==
  /\ db = {}
  /\ pool = [s \in Sessions |-> FALSE]
  /\ modules = [s \in Sessions |-> EmptyTable]
  /\ instances = [s \in Sessions |-> EmptyTable]
  /\ scratch = [s \in Sessions |-> None]
  /\ pc = [s \in Sessions |-> "idle"]
  /\ cur = [s \in Sessions |-> NoCur]
  /\ last = NoLast
  /\ out = [s \in Sessions |-> <<>>]
  /\ asked = [s \in Sessions |-> 0]
  /\ budget = MaxOps
  /\ store_lock = "free"
  /\ calls = [c \in Callers |-> NoCall]
  /\ conns = [s \in Sessions |-> 0]
  /\ unfinalized = FALSE
  /\ module_name = NoName

\* A host call of session s may start.
CanStart(s) == pc[s] = "idle" /\ budget > 0

Returned(op, ret, why) ==
  [NoLast EXCEPT !.op = op, !.ret = ret, !.why = why]

\* A trap reported to the guest as the -1 result.
FaultedAsError(op, why) ==
  [NoLast EXCEPT !.op = op, !.ret = -1, !.why = why]

Faulted(op, why) ==
  [NoLast EXCEPT !.op = op, !.status = "fault", !.ret = -2, !.why = why]

\* An exit that gives a connection back on return only, keeping it checked
\* out when the call traps.
EndKeepsConnection(s, rec) ==
  /\ last' = [rec EXCEPT !.session = s]
  /\ pc' = [pc EXCEPT ![s] = IF rec.status = "fault" THEN "fault" ELSE "idle"]
  /\ cur' = [cur EXCEPT ![s] = NoCur]
  /\ conns' = IF rec.status = "fault" THEN conns ELSE [conns EXCEPT ![s] = 0]

\* The call of session s ends, by return or by trap: its locals go out of
\* scope, and with them the connection it had checked out, if any.
End(s, rec) ==
  /\ last' = [rec EXCEPT !.session = s]
  /\ pc' = [pc EXCEPT ![s] = IF rec.status = "fault" THEN "fault" ELSE "idle"]
  /\ cur' = [cur EXCEPT ![s] = NoCur]
  /\ conns' = [conns EXCEPT ![s] = 0]

\* --------------------------------------------------------------- connect_db
\* A connect_db that forgets the pool it had when the new connection fails.
ConnectDbDrops(s) ==
  /\ CanStart(s)
  /\ budget' = budget - 1
  /\ \E connected \in BOOLEAN :
       /\ pool' = [pool EXCEPT ![s] = connected]
       /\ End(s, Returned("connect_db", IF connected THEN 0 ELSE 1, ""))
  /\ UNCHANGED <<db, modules, instances, scratch, out, asked>>

\* PgPool::connect(url): on Ok the pool is stored and 0 returned, else 1.
ConnectDb(s) ==
  /\ CanStart(s)
  /\ budget' = budget - 1
  /\ \E connected \in BOOLEAN :
       /\ pool' = IF connected THEN [pool EXCEPT ![s] = TRUE] ELSE pool
       /\ End(s, Returned("connect_db", IF connected THEN 0 ELSE 1, ""))
  /\ UNCHANGED <<db, modules, instances, scratch, out, asked>>

\* -------------------------------------------------------------- load_module
\* Module::from_file: Component::from_file(..).unwrap(), then instantiate_async(..)?
FromFile(fuel, file) ==
  CASE file \in {"missing.wasm", "invalid.wasm"} -> [kind |-> "panic"]
    [] file = "no-exports.wasm" -> [kind |-> "err"]
    [] OTHER -> [kind |-> "ok", val |-> [fuel |-> fuel]]

LoadModule(s) ==
  /\ CanStart(s)
  /\ modules[s].next < MaxModules
  /\ budget' = budget - 1
  /\ \E fuel \in FuelChoices, file \in Files :
       LET m == FromFile(fuel, file)
       IN  CASE m.kind = "panic" ->
                  /\ End(s, [Faulted("load_module", "panic") EXCEPT !.arg = file])
                  /\ UNCHANGED modules
             [] m.kind = "err" ->
                  /\ End(s, [Returned("load_module", -1, "") EXCEPT !.arg = file])
                  /\ UNCHANGED modules
             [] OTHER ->
                  /\ modules' = [modules EXCEPT ![s] = TableAdd(@, m.val)]
                  /\ End(s, [Returned("load_module", modules[s].next, "")
                              EXCEPT !.arg = file])
  /\ UNCHANGED <<db, pool, instances, scratch, out, asked>>

\* -------------------------------------------------------------- init_module
EventRefs(rows) ==
  [i \in 1 .. Len(rows) |-> [event_type |-> rows[i].type, payload |-> rows[i].body]]

InitModule(s) ==
  /\ CanStart(s)
  /\ budget' = budget - 1
  /\ \E m \in 0 .. modules[s].next, stream \in Streams, id \in Ids :
     \E events \in SelectEvents(db, stream) :
       IF m \notin Handles(modules[s])
       THEN /\ End(s, [Faulted("init_module", "handle")
                         EXCEPT !.base = m, !.arg = id, !.stream = stream])
            /\ UNCHANGED <<modules, instances>>
       ELSE
         LET r == ModuleInit(TableGet(modules[s], m).fuel, id)
             a == InstanceApply(r.res.val, r.fuel, EventRefs(events))
         IN  IF r.res.kind # "ok"
             THEN /\ modules' = [modules EXCEPT ![s] = TableSet(@, m, [fuel |-> r.fuel])]
                  /\ End(s, [Returned("init_module", -1, r.guest)
                              EXCEPT !.base = m, !.arg = id, !.stream = stream])
                  /\ UNCHANGED instances
             ELSE IF ~pool[s]
             THEN /\ modules' = [modules EXCEPT ![s] = TableSet(@, m, [fuel |-> r.fuel])]
                  /\ End(s, [Faulted("init_module", "no_pool")
                              EXCEPT !.base = m, !.arg = id, !.stream = stream])
                  /\ UNCHANGED instances
             ELSE IF a.res.kind # "ok"
             THEN /\ modules' = [modules EXCEPT ![s] = TableSet(@, m, [fuel |-> a.fuel])]
                  /\ End(s, [Faulted("init_module", a.guest)
                              EXCEPT !.order = events, !.base = m, !.arg = id,
                                     !.stream = stream])
                  /\ UNCHANGED instances
             ELSE /\ modules' = [modules EXCEPT ![s] = TableSet(@, m, [fuel |-> a.fuel])]
                  /\ instances' = [instances EXCEPT ![s] =
                       TableAdd(@, [stream |-> stream, id |-> id, state |-> a.state,
                                    module |-> m])]
                  /\ End(s, [Returned("init_module", instances[s].next, "ok")
                              EXCEPT !.order = events, !.arg = id, !.stream = stream,
                                     !.inst = instances[s].next, !.base = m])
  /\ UNCHANGED <<db, pool, scratch, out, asked>>

\* ---------------------------------------------------------- execute_command
\* Up to the point where the connection is acquired: the instance is looked
\* up, handle_and_apply runs, and an error is staged in the scratch buffer.
ExecStart(s) ==
  /\ CanStart(s)
  /\ budget' = budget - 1
  /\ \E h \in 0 .. instances[s].next, name \in CommandNames, payload \in Payloads :
       IF h \notin Handles(instances[s])
       THEN /\ End(s, [Faulted("execute_command", "handle")
                         EXCEPT !.inst = h, !.arg = name, !.payload = payload])
            /\ UNCHANGED <<modules, instances, scratch, out, asked>>
       ELSE
         LET inst == TableGet(instances[s], h)
             r == HandleAndApply(inst.state, TableGet(modules[s], inst.module).fuel,
                                 [command |-> name, payload |-> payload])
             rec == [NoLast EXCEPT !.op = "execute_command", !.inst = h,
                                   !.pre = inst.state, !.why = r.guest, !.arg = name,
                                   !.payload = payload, !.stream = inst.stream]
         IN  /\ instances' = [instances EXCEPT ![s] =
                                TableSet(@, h, [inst EXCEPT !.state = r.state])]
             /\ modules' = [modules EXCEPT ![s] =
                              TableSet(@, inst.module, [fuel |-> r.fuel])]
             /\ IF r.res.kind # "ok"
                THEN /\ scratch' = [scratch EXCEPT ![s] =
                                      ScratchNew(SerializeString(r.res.val))]
                     /\ out' = [out EXCEPT ![s] = <<>>]
                     /\ asked' = [asked EXCEPT ![s] = 0]
                     /\ End(s, [rec EXCEPT !.ret = -1])
                ELSE IF Len(r.res.val) = 0
                THEN /\ End(s, [rec EXCEPT !.ret = 0])
                     /\ UNCHANGED <<scratch, out, asked>>
                ELSE IF ~pool[s]
                THEN /\ End(s, [rec EXCEPT !.status = "fault", !.ret = -2,
                                           !.why = "no_pool", !.events = r.res.val])
                     /\ UNCHANGED <<scratch, out, asked>>
                ELSE /\ pc' = [pc EXCEPT ![s] = "select"]
                     /\ conns' = [conns EXCEPT ![s] = @ + 1]
                     /\ cur' = [cur EXCEPT ![s] =
                                  [inst |-> h, stream |-> inst.stream, command |-> name,
                                   payload |-> payload, events |-> r.res.val,
                                   version |-> -2, pre |-> inst.state]]
                     /\ UNCHANGED <<last, scratch, out, asked>>
  /\ UNCHANGED <<db, pool>>

\* SELECT MAX(version) for the instance's stream
ExecSelect(s) ==
  /\ pc[s] = "select"
  /\ cur' = [cur EXCEPT ![s].version = SelectMaxVersion(db, cur[s].stream)]
  /\ pc' = [pc EXCEPT ![s] = "insert"]
  /\ UNCHANGED <<db, pool, modules, instances, scratch, last, out, asked, budget, conns>>

\* An INSERT that, on a key conflict, goes back to re-read the version and
\* tries again within the same call.
ExecInsertRetry(s) ==
  /\ pc[s] = "insert"
  /\ LET c == cur[s]
         rows == BindRows(c.stream, c.version, c.events)
         rec == [NoLast EXCEPT !.op = "execute_command", !.inst = c.inst,
                               !.pre = c.pre, !.why = "ok", !.events = c.events,
                               !.base = c.version, !.stream = c.stream,
                               !.arg = c.command, !.payload = c.payload]
     IN  IF ~SqlParses(InsertQuery(Len(c.events)))
         THEN /\ End(s, [rec EXCEPT !.status = "fault", !.ret = -2, !.why = "syntax"])
              /\ UNCHANGED db
         ELSE IF UniqueViolation(db, rows)
         THEN /\ pc' = [pc EXCEPT ![s] = "select"]
              /\ UNCHANGED <<db, cur, last, conns>>
         ELSE /\ db' = db \cup Range(rows)
              /\ End(s, [rec EXCEPT !.ret = Len(c.events)])
  /\ UNCHANGED <<pool, modules, instances, scratch, out, asked, budget>>

\* An INSERT whose failure puts the instance back in the state it had before
\* the command.
ExecInsertRollback(s) ==
  /\ pc[s] = "insert"
  /\ LET c == cur[s]
         rows == BindRows(c.stream, c.version, c.events)
         rec == [NoLast EXCEPT !.op = "execute_command", !.inst = c.inst,
                               !.pre = c.pre, !.why = "ok", !.events = c.events,
                               !.base = c.version, !.stream = c.stream,
                               !.arg = c.command, !.payload = c.payload]
         back == [instances EXCEPT ![s] =
                    TableSet(@, c.inst, [TableGet(@, c.inst) EXCEPT !.state = c.pre])]
     IN  IF ~SqlParses(InsertQuery(Len(c.events)))
         THEN /\ End(s, [rec EXCEPT !.status = "fault", !.ret = -2, !.why = "syntax"])
              /\ instances' = back
              /\ UNCHANGED db
         ELSE IF UniqueViolation(db, rows)
         THEN /\ End(s, [rec EXCEPT !.status = "fault", !.ret = -2, !.why = "conflict"])
              /\ instances' = back
              /\ UNCHANGED db
         ELSE /\ db' = db \cup Range(rows)
              /\ End(s, [rec EXCEPT !.ret = Len(c.events)])
              /\ UNCHANGED instances
  /\ UNCHANGED <<pool, modules, scratch, out, asked, budget>>

\* An INSERT that stages the bytes of the first event it persisted.
ExecInsertStages(s) ==
  /\ pc[s] = "insert"
  /\ LET c == cur[s]
         rows == BindRows(c.stream, c.version, c.events)
         rec == [NoLast EXCEPT !.op = "execute_command", !.inst = c.inst,
                               !.pre = c.pre, !.why = "ok", !.events = c.events,
                               !.base = c.version, !.stream = c.stream,
                               !.arg = c.command, !.payload = c.payload]
     IN  IF ~SqlParses(InsertQuery(Len(c.events)))
         THEN /\ End(s, [rec EXCEPT !.status = "fault", !.ret = -2, !.why = "syntax"])
              /\ UNCHANGED <<db, scratch>>
         ELSE IF UniqueViolation(db, rows)
         THEN /\ End(s, [rec EXCEPT !.status = "fault", !.ret = -2, !.why = "conflict"])
              /\ UNCHANGED <<db, scratch>>
         ELSE /\ db' = db \cup Range(rows)
              /\ scratch' = [scratch EXCEPT ![s] = ScratchNew(EventBytes(c.events[1]))]
              /\ End(s, [rec EXCEPT !.ret = Len(c.events)])
  /\ UNCHANGED <<pool, modules, instances, out, asked, budget>>

\* The INSERT statement is built, bound and executed.
ExecInsert(s) ==
  /\ pc[s] = "insert"
  /\ LET c == cur[s]
         rows == BindRows(c.stream, c.version, c.events)
         rec == [NoLast EXCEPT !.op = "execute_command", !.inst = c.inst,
                               !.pre = c.pre, !.why = "ok", !.events = c.events,
                               !.base = c.version, !.stream = c.stream,
                               !.arg = c.command, !.payload = c.payload]
     IN  IF ~SqlParses(InsertQuery(Len(c.events)))
         THEN /\ End(s, [rec EXCEPT !.status = "fault", !.ret = -2, !.why = "syntax"])
              /\ UNCHANGED db
         ELSE IF UniqueViolation(db, rows)
         THEN /\ End(s, [rec EXCEPT !.status = "fault", !.ret = -2, !.why = "conflict"])
              /\ UNCHANGED db
         ELSE /\ db' = db \cup Range(rows)
              /\ End(s, [rec EXCEPT !.ret = Len(c.events)])
  /\ UNCHANGED <<pool, modules, instances, scratch, out, asked, budget>>

\* --------------------------------------------------------------- load_events
EventStructs(rows) ==
  [i \in 1 .. Len(rows) |->
     [version |-> rows[i].version, type |-> rows[i].type, body |-> rows[i].body]]

LoadEvents(s) ==
  /\ CanStart(s)
  /\ budget' = budget - 1
  /\ \E stream \in Streams, from_version \in FromVersions :
       IF ~pool[s]
       THEN /\ End(s, Faulted("load_events", "no_pool"))
            /\ UNCHANGED <<scratch, out, asked>>
       ELSE \E rows \in (IF from_version < 0 THEN SelectEvents(db, stream)
                                              ELSE SelectEvents(db, stream)) :
              /\ scratch' = [scratch EXCEPT ![s] =
                               ScratchNew(SerializeEvents(EventStructs(rows)))]
              /\ out' = [out EXCEPT ![s] = <<>>]
              /\ asked' = [asked EXCEPT ![s] = 0]
              /\ End(s, [Returned("load_events", 0, "")
                          EXCEPT !.order = EventStructs(rows), !.stream = stream,
                                 !.base = from_version])
  /\ UNCHANGED <<db, pool, modules, instances>>

\* ---------------------------------------------------------- read_events_data
\* Whether [data_ptr, data_ptr + data_len) lies inside the guest's memory.
MemoryRanges == {"inside", "outside"}

\* A read that takes the buffer out of the slot and does not put it back.
ReadEventsDataTake(s) ==
  /\ CanStart(s)
  /\ budget' = budget - 1
  /\ \E data_len \in ReadLens, range \in MemoryRanges :
       IF scratch[s] = None
       THEN /\ End(s, [Faulted("read_events_data", "no_scratch") EXCEPT !.base = data_len])
            /\ UNCHANGED <<scratch, out, asked>>
       ELSE IF range = "outside"
       THEN /\ scratch' = [scratch EXCEPT ![s] = None]
            /\ End(s, [Faulted("read_events_data", "memory") EXCEPT !.base = data_len])
            /\ UNCHANGED <<out, asked>>
       ELSE LET r == ScratchRead(scratch[s], data_len)
            IN  /\ scratch' = [scratch EXCEPT ![s] = None]
                /\ out' = [out EXCEPT ![s] = @ \o r.data]
                /\ asked' = [asked EXCEPT ![s] = @ + data_len]
                /\ End(s, [Returned("read_events_data", r.n, "")
                            EXCEPT !.base = data_len])
  /\ UNCHANGED <<db, pool, modules, instances>>

\* The buffer is taken out of the slot, the destination range is looked up
\* in the guest's memory, the bytes are copied and the buffer is put back.
ReadEventsData(s) ==
  /\ CanStart(s)
  /\ budget' = budget - 1
  /\ \E data_len \in ReadLens, range \in MemoryRanges :
       IF scratch[s] = None
       THEN /\ End(s, [Faulted("read_events_data", "no_scratch") EXCEPT !.base = data_len])
            /\ UNCHANGED <<scratch, out, asked>>
       ELSE IF range = "outside"
       THEN /\ scratch' = [scratch EXCEPT ![s] = None]
            /\ End(s, [Faulted("read_events_data", "memory") EXCEPT !.base = data_len])
            /\ UNCHANGED <<out, asked>>
       ELSE LET r == ScratchRead(scratch[s], data_len)
            IN  /\ scratch' = [scratch EXCEPT ![s] = r.scratch]
                /\ out' = [out EXCEPT ![s] = @ \o r.data]
                /\ asked' = [asked EXCEPT ![s] = @ + data_len]
                /\ End(s, [Returned("read_events_data", r.n, "")
                            EXCEPT !.base = data_len])
  /\ UNCHANGED <<db, pool, modules, instances>>

\* ------------------------------------------------------------ stream_version
StreamVersion(s) ==
  /\ CanStart(s)
  /\ budget' = budget - 1
  /\ \E stream \in Streams :
       IF ~pool[s]
       THEN End(s, Faulted("stream_version", "no_pool"))
       ELSE End(s, [Returned("stream_version", SelectMaxVersion(db, stream), "")
                     EXCEPT !.stream = stream])
  /\ UNCHANGED <<db, pool, modules, instances, scratch, out, asked>>

\* -------------------------------------------------------------- specification
\* A session's host calls run one after the other, and each contract call
\* inside them takes the Store's lock and gives it back before the host call
\* goes on: between the steps of the host calls the lock is free.
Next ==
  /\ \E s \in Sessions :
       \/ ConnectDb(s)
       \/ LoadModule(s)
       \/ InitModule(s)
       \/ ExecStart(s)
       \/ ExecSelect(s)
       \/ ExecInsert(s)
       \/ LoadEvents(s)
       \/ ReadEventsData(s)
       \/ StreamVersion(s)
  /\ UNCHANGED <<store_lock, calls, unfinalized, module_name>>

Spec == Init /\ [][Next]_vars

\* The state after every session has connected, loaded the module and
\* initialised one instance for the first stream while the table was empty.
WarmStream == "acct-1"
WarmId == "id-1"

WarmInstance ==
  LET r == ModuleInit(MaxFuel, WarmId)
      a == InstanceApply(r.res.val, r.fuel, <<>>)
  IN  [inst |-> [stream |-> WarmStream, id |-> WarmId, state |-> a.state, module |-> 0],
       fuel |-> a.fuel]

WarmInit ==
  /\ db = {}
  /\ pool = [s \in Sessions |-> TRUE]
  /\ modules = [s \in Sessions |-> TableAdd(EmptyTable, [fuel |-> WarmInstance.fuel])]
  /\ instances = [s \in Sessions |-> TableAdd(EmptyTable, WarmInstance.inst)]
  /\ scratch = [s \in Sessions |-> None]
  /\ pc = [s \in Sessions |-> "idle"]
  /\ cur = [s \in Sessions |-> NoCur]
  /\ last = NoLast
  /\ out = [s \in Sessions |-> <<>>]
  /\ asked = [s \in Sessions |-> 0]
  /\ budget = MaxWarmOps
  /\ store_lock = "free"
  /\ calls = [c \in Callers |-> NoCall]
  /\ conns = [s \in Sessions |-> 0]
  /\ unfinalized = FALSE
  /\ module_name = NoName

SpecWarm == WarmInit /\ [][Next]_vars

\* The cold start reaches the warm start's sessions, tables and event table.
WarmReached ==
  /\ db = {}
  /\ pool = [s \in Sessions |-> TRUE]
  /\ modules = [s \in Sessions |-> TableAdd(EmptyTable, [fuel |-> WarmInstance.fuel])]
  /\ instances = [s \in Sessions |-> TableAdd(EmptyTable, WarmInstance.inst)]
  /\ scratch = [s \in Sessions |-> None]
  /\ pc = [s \in Sessions |-> "idle"]

\* ------------------------------------------- the execution context's lock
\* The contract calls of module.rs and wit_aggregate.rs at the grain of the
\* lock: every caller holding the Store of the first session's module 0 may
\* start a call at any time; a call waits for the lock, runs holding the
\* guard, is finalized when the guest returned, and drops the guard when it
\* returns, fails or is aborted.
CtxSession == "p1"
CtxModule == 0

\* The fuel left in the Store.
CtxFuel == TableGet(modules[CtxSession], CtxModule).fuel

\* The contract operations a caller makes: Module::init, and
\* ModuleInstance::apply / ModuleInstance::handle.
OpsOf(c) == IF c = "module" THEN {"init"} ELSE {"apply", "handle"}

\* `self.store.lock()`: the call is made and waits for the lock.
CtxCall(c) ==
  /\ calls[c].pc = "idle"
  /\ \E op \in OpsOf(c) : calls' = [calls EXCEPT ![c] = [pc |-> "waiting", op |-> op]]
  /\ UNCHANGED <<store_lock, modules, unfinalized>>

\* A lock that is handed out whether or not somebody holds it.
CtxAcquireUnguarded(c) ==
  /\ calls[c].pc = "waiting"
  /\ store_lock' = c
  /\ calls' = [calls EXCEPT ![c].pc = "inside"]
  /\ unfinalized' = TRUE
  /\ UNCHANGED modules

\* `.lock().await` completes, the guard is handed out when nobody holds it,
\* and call_async enters the guest.
CtxAcquire(c) ==
  /\ calls[c].pc = "waiting"
  /\ store_lock = "free"
  /\ store_lock' = c
  /\ calls' = [calls EXCEPT ![c].pc = "inside"]
  /\ unfinalized' = TRUE
  /\ UNCHANGED modules

\* A budget that is filled up again whenever the guest has used it up.
CtxRunRefilled(c) ==
  /\ calls[c].pc = "inside"
  /\ CtxFuel > 0
  /\ modules' = [modules EXCEPT ![CtxSession] =
                   TableSet(@, CtxModule,
                            [fuel |-> IF CtxFuel = 1 THEN MaxFuel ELSE CtxFuel - 1])]
  /\ \E done \in BOOLEAN :
       calls' = [calls EXCEPT ![c].pc = IF done THEN "returned" ELSE "inside"]
  /\ UNCHANGED <<store_lock, unfinalized>>

\* The guest runs up to its next fuel checkpoint, which costs one unit, and
\* there either has returned (a result or a DomainError) or goes on running.
CtxRun(c) ==
  /\ calls[c].pc = "inside"
  /\ CtxFuel > 0
  /\ modules' = [modules EXCEPT ![CtxSession] =
                   TableSet(@, CtxModule, [fuel |-> CtxFuel - 1])]
  /\ \E done \in BOOLEAN :
       calls' = [calls EXCEPT ![c].pc = IF done THEN "returned" ELSE "inside"]
  /\ UNCHANGED <<store_lock, unfinalized>>

\* The fuel is used up: the sandbox aborts the call, `call_async(..).await?`
\* leaves the function and the guard goes out of scope.
CtxAbort(c) ==
  /\ calls[c].pc = "inside"
  /\ CtxFuel = 0
  /\ store_lock' = "free"
  /\ calls' = [calls EXCEPT ![c] = NoCall]
  /\ UNCHANGED <<modules, unfinalized>>

\* The guest returned: post_return_async runs, and the guard goes out of
\* scope.
CtxReturn(c) ==
  /\ calls[c].pc = "returned"
  /\ unfinalized' = FALSE
  /\ store_lock' = "free"
  /\ calls' = [calls EXCEPT ![c] = NoCall]
  /\ UNCHANGED modules

CtxNext ==
  /\ \E c \in Callers :
       \/ CtxCall(c)
       \/ CtxAcquire(c)
       \/ CtxRun(c)
       \/ CtxAbort(c)
       \/ CtxReturn(c)
  /\ UNCHANGED <<db, pool, instances, scratch, pc, cur, last, out, asked, budget, conns,
                 module_name>>

SpecCtx == WarmInit /\ [][CtxNext]_vars

\* The same with the scheduling the runtime gives: the executor keeps polling
\* a call that can go on (the guest runs to its next fuel checkpoint, the trap
\* or the post-return is delivered), and the tokio Mutex hands the lock to its
\* waiters in the order they asked, so that a waiter passed over again and
\* again does not exist. Nothing makes a guest return: a guest may run on at
\* every checkpoint.
\* What a contract call can change.
ctx_vars == <<store_lock, calls, modules, unfinalized>>

SpecCtxFair ==
  /\ WarmInit
  /\ [][CtxNext]_vars
  /\ \A c \in Callers :
       /\ WF_ctx_vars(CtxRun(c))
       /\ WF_ctx_vars(CtxAbort(c))
       /\ WF_ctx_vars(CtxReturn(c))
       /\ SF_ctx_vars(CtxAcquire(c))

\* ------------------------------------------------------- ModuleName::new
\* The characters the names are made of: two lowercase letters, the hyphen,
\* an uppercase letter, a digit and the line feed.
Lower == {"a", "z"}
NameChars == Lower \cup {"-", "A", "0", "\n"}

RECURSIVE Strings(_)
\* The strings over NameChars of length n.
Strings(n) ==
  IF n = 0 THEN {<<>>}
  ELSE {Append(w, c) : w \in Strings(n - 1), c \in NameChars}

Names == UNION {Strings(n) : n \in 0 .. MaxNameLen}

RECURSIVE MatchRest(_)
\* (?:\-?[a-z])*$ : the rest of the text is a run of groups, each an optional
\* hyphen followed by a lowercase letter, up to the end of the text.
MatchRest(w) ==
  \/ w = <<>>
  \/ w # <<>> /\ Head(w) \in Lower /\ MatchRest(Tail(w))
  \/ Len(w) >= 2 /\ w[1] = "-" /\ w[2] \in Lower /\ MatchRest(Tail(Tail(w)))

RECURSIVE MatchRestLoose(_)
\* (?:\-*[a-z])*$ : any number of hyphens before each letter.
MatchRestLoose(w) ==
  \/ w = <<>>
  \/ w # <<>> /\ Head(w) \in Lower /\ MatchRestLoose(Tail(w))
  \/ Len(w) >= 2 /\ w[1] = "-" /\ MatchRestLoose(Tail(w))

\* A validation with the pattern ^[a-z](?:\-*[a-z])*$.
ModuleNameNewLoose(w) ==
  IF w # <<>> /\ Head(w) \in Lower /\ MatchRestLoose(Tail(w)) THEN "ok" ELSE "err"

\* ModuleName::new: the text must match ^[a-z](?:\-?[a-z])*$.
ModuleNameNew(w) ==
  IF w # <<>> /\ Head(w) \in Lower /\ MatchRest(Tail(w)) THEN "ok" ELSE "err"

NameInit ==
  /\ Init!1 /\ Init!2 /\ Init!3 /\ Init!4 /\ Init!5 /\ Init!6 /\ Init!7 /\ Init!8
  /\ Init!9 /\ Init!10 /\ Init!11 /\ Init!12 /\ Init!13 /\ Init!14 /\ Init!15
  /\ module_name \in {[text |-> w, result |-> "none"] : w \in Names}

NewModuleName ==
  /\ module_name.result = "none"
  /\ module_name' = [module_name EXCEPT !.result = ModuleNameNew(module_name.text)]
  /\ UNCHANGED <<db, pool, modules, instances, scratch, pc, cur, last, out, asked, budget,
                 store_lock, calls, conns, unfinalized>>

SpecName == NameInit /\ [][NewModuleName]_vars

\* ------------------------------------------ locks and connections together
\* init_module and execute_command at the grain of what they wait for and
\* hold: pc[s] is the place in the host function where session s stands,
\* store_lock the session whose contract call holds the Store's lock, conns[s]
\* the connection s has checked out. Here the sessions share one Store and one
\* pool of PoolSize connections, which is more sharing than one process's
\* resources give. `acquire()` is taken as a wait, its timeout not as a way
\* out.

\* Places where the host function waits for `self.store.lock().await`.
ResWaitsLock ==
  {"init:lock-init", "init:lock-apply",
   "exec:lock-handle", "exec:lock-apply", "exec:lock-fuel"}

\* Places inside the block that holds the guard.
ResHoldsLock ==
  {"init:in-init", "init:in-apply", "exec:in-handle", "exec:in-apply", "exec:in-fuel"}

\* Places where the host function waits for `database_pool().acquire().await`.
ResWaitsConn == {"init:acquire", "exec:acquire"}

\* Places where a statement runs on the connection.
ResQueries == {"init:select", "exec:select", "exec:insert"}

\* Places from which the host function may leave early: a DomainError (-1), a
\* trap, or no events to persist (0). fuel_consumed cannot fail, but the
\* return of 0 follows it.
ResMayEnd ==
  {"init:in-init", "init:select", "exec:in-handle", "exec:in-apply", "exec:in-fuel",
   "exec:select"}

\* An order of execute_command in which the connection is asked for inside the
\* block that holds the guard taken for fuel_consumed.
ResNextHoldsLock(p) ==
  CASE p = "init:lock-init" -> "init:in-init"
    [] p = "init:in-init" -> "init:acquire"
    [] p = "init:acquire" -> "init:select"
    [] p = "init:select" -> "init:lock-apply"
    [] p = "init:lock-apply" -> "init:in-apply"
    [] p = "init:in-apply" -> "end"
    [] p = "exec:lock-handle" -> "exec:in-handle"
    [] p = "exec:in-handle" -> "exec:lock-apply"
    [] p = "exec:lock-apply" -> "exec:in-apply"
    [] p = "exec:in-apply" -> "exec:lock-fuel"
    [] p = "exec:lock-fuel" -> "exec:acquire"
    [] p = "exec:in-fuel" -> "exec:acquire"
    [] p = "exec:acquire" -> "exec:select"
    [] p = "exec:select" -> "exec:insert"
    [] OTHER -> "end"

\* The place that follows p when the host function goes on: init_module is
\* Module::init, acquire, SELECT, ModuleInstance::apply, add; execute_command
\* is handle, apply, fuel_consumed, acquire, SELECT, INSERT.
ResNext(p) ==
  CASE p = "init:lock-init" -> "init:in-init"
    [] p = "init:in-init" -> "init:acquire"
    [] p = "init:acquire" -> "init:select"
    [] p = "init:select" -> "init:lock-apply"
    [] p = "init:lock-apply" -> "init:in-apply"
    [] p = "init:in-apply" -> "end"
    [] p = "exec:lock-handle" -> "exec:in-handle"
    [] p = "exec:in-handle" -> "exec:lock-apply"
    [] p = "exec:lock-apply" -> "exec:in-apply"
    [] p = "exec:in-apply" -> "exec:lock-fuel"
    [] p = "exec:lock-fuel" -> "exec:in-fuel"
    [] p = "exec:in-fuel" -> "exec:acquire"
    [] p = "exec:acquire" -> "exec:select"
    [] p = "exec:select" -> "exec:insert"
    [] OTHER -> "end"

\* Connections of the pool nobody has checked out.
RECURSIVE ResCheckedOut(_)
ResCheckedOut(S) ==
  IF S = {} THEN 0
  ELSE LET s == CHOOSE x \in S : TRUE IN conns[s] + ResCheckedOut(S \ {s})

ResFree == PoolSize - ResCheckedOut(Sessions)

\* The host function of session s returns or traps: its connection, if it
\* has one, goes back to the pool.
ResEnd(s) ==
  /\ \E how \in {"idle", "fault"} : pc' = [pc EXCEPT ![s] = how]
  /\ conns' = [conns EXCEPT ![s] = 0]

\* The host function of s goes on to the place after p, or ends there.
ResGoOn(s, p) ==
  IF ResNext(p) = "end"
  THEN ResEnd(s)
  ELSE /\ pc' = [pc EXCEPT ![s] = ResNext(p)]
       /\ UNCHANGED conns

\* The guest of session s calls init_module or execute_command.
ResStart(s) ==
  /\ CanStart(s)
  /\ budget' = budget - 1
  /\ \E p \in {"init:lock-init", "exec:lock-handle"} : pc' = [pc EXCEPT ![s] = p]
  /\ UNCHANGED <<store_lock, conns>>

\* `self.store.lock().await` completes.
ResLock(s) ==
  /\ pc[s] \in ResWaitsLock
  /\ store_lock = "free"
  /\ store_lock' = s
  /\ pc' = [pc EXCEPT ![s] = ResNext(pc[s])]
  /\ UNCHANGED <<conns, budget>>

\* The contract call (or fuel_consumed) is over and the guard's block ends;
\* the host function goes on, or leaves with -1, 0 or a trap.
ResUnlock(s) ==
  /\ pc[s] \in ResHoldsLock
  /\ store_lock' = "free"
  /\ \/ ResGoOn(s, pc[s])
     \/ pc[s] \in ResMayEnd /\ ResEnd(s)
  /\ UNCHANGED budget

\* `.acquire().await` completes: a connection of the pool is free.
ResAcquire(s) ==
  /\ pc[s] \in ResWaitsConn
  /\ ResFree > 0
  /\ conns' = [conns EXCEPT ![s] = @ + 1]
  /\ pc' = [pc EXCEPT ![s] = ResNext(pc[s])]
  /\ UNCHANGED <<store_lock, budget>>

\* A statement runs on the connection; the host function goes on, or traps.
ResQuery(s) ==
  /\ pc[s] \in ResQueries
  /\ \/ ResGoOn(s, pc[s])
     \/ pc[s] \in ResMayEnd /\ ResEnd(s)
  /\ UNCHANGED <<store_lock, budget>>

ResStep ==
  /\ \E s \in Sessions :
       \/ ResStart(s)
       \/ ResLock(s)
       \/ ResUnlock(s)
       \/ ResAcquire(s)
       \/ ResQuery(s)
  /\ UNCHANGED <<db, pool, modules, instances, scratch, cur, last, out, asked, calls,
                 unfinalized, module_name>>

SpecRes == WarmInit /\ [][ResStep]_vars

\* ================================================================ properties
\* A host call of session s ends in this step; last' describes it.
Ended(s) ==
  /\ pc[s] \in {"idle", "insert"}
  /\ pc'[s] \in {"idle", "fault"}
  /\ budget' # budget \/ pc[s] = "insert"
  /\ \A t \in Sessions \ {s} : pc'[t] = pc[t]
  /\ last'.session = s

\* The execute_command of session s runs its INSERT in this step.
Inserts(s) == pc[s] = "insert" /\ Ended(s)

StreamRows(table, stream) == {r \in table : r.stream = stream}

\* The rows of a stream in version order.
Ascending(table, stream) ==
  CHOOSE f \in Perms(StreamRows(table, stream)) :
    \A i, j \in DOMAIN f : i < j => f[i].version <= f[j].version

\* replay(initialize(id), the stream's rows in version order)
Replayed(table, stream, id) ==
  GuestApply(GuestInit(id).val, EventRefs(Ascending(table, stream)))

\* ---------------------------------------------------------------------- C1
\* The versions of every stream are 0 .. n-1, one row per version.
C1_Contiguous ==
  \A stream \in Streams :
    LET rows == StreamRows(db, stream)
    IN  /\ {r.version : r \in rows} = 0 .. (Cardinality(rows) - 1)
        /\ \A r1, r2 \in rows : r1.version = r2.version => r1 = r2

\* Rows are only ever added, and only by the INSERT step of execute_command.
C1_OnlyAppend ==
  db' # db => /\ db \subseteq db'
              /\ \E s \in Sessions : Inserts(s) /\ last'.op = "execute_command"

\* C1: in every reachable state the persisted versions of every stream are
\* exactly 0 .. n-1, without gaps or duplicates, and only the INSERT step of
\* execute_command ever creates a row.
C1_Versions == [] C1_Contiguous /\ [][C1_OnlyAppend]_vars

\* A session has appended at version 1 after another session's call on the
\* same stream ended in a fault.
C1_Witness ==
  /\ Cardinality(StreamRows(db, WarmStream)) = 2
  /\ last.op = "execute_command" /\ last.status = "ret" /\ last.ret = 1
  /\ last.base = 0
  /\ \E s \in Sessions \ {last.session} : pc[s] = "fault"

\* ---------------------------------------------------------------------- C2
\* Sessions s and t have both read the same MAX(version) of the same stream
\* and neither has run its INSERT yet.
Racing(s, t) ==
  /\ s # t
  /\ pc[s] = "insert" /\ pc[t] = "insert"
  /\ cur[s].stream = cur[t].stream
  /\ cur[s].version = cur[t].version

\* Session t has just appended from the version that s, still before its
\* INSERT, has read as well.
Overtaken(s, t) ==
  /\ s # t
  /\ pc[s] = "insert"
  /\ last.session = t /\ last.op = "execute_command"
  /\ last.status = "ret" /\ last.ret > 0
  /\ last.stream = cur[s].stream /\ last.base = cur[s].version

C2_FirstWins ==
  \A s, t \in Sessions :
    (Racing(s, t) /\ Inserts(s)) =>
      /\ last'.status = "ret" /\ last'.ret = Len(cur[s].events)
      /\ db' = db \cup Range(BindRows(cur[s].stream, cur[s].version, cur[s].events))
      /\ db' # db

C2_SecondConflicts ==
  \A s, t \in Sessions :
    (Overtaken(s, t) /\ Inserts(s)) =>
      last'.status = "fault" /\ last'.why = "conflict" /\ db' = db

C2_NoDuplicateKey ==
  \A r1, r2 \in db : (r1.stream = r2.stream /\ r1.version = r2.version) => r1 = r2

\* C2: of two execute_command calls that read the same MAX(version) of a
\* stream before either inserts, the first to insert succeeds and the other
\* is rejected as a conflict; no two rows share (stream, version).
C2_OneWinner ==
  [] C2_NoDuplicateKey /\ [][C2_FirstWins /\ C2_SecondConflicts]_vars

\* ---------------------------------------------------------------------- C3
InstanceOf(table, h) == TableGet(table, h)

\* C3: after every committed execute_command the state of the instance that
\* executed it equals replay(initialize(id), the stream's persisted events in
\* version order).
C3_LiveEqualsReplay ==
  [][\A s \in Sessions :
       (Ended(s) /\ last'.op = "execute_command" /\ last'.status = "ret"
          /\ last'.ret > 0) =>
         LET inst == InstanceOf(instances'[s], last'.inst)
         IN  Ok(inst.state) = Replayed(db', inst.stream, inst.id)]_vars

\* ---------------------------------------------------------------------- C4
\* The command the call that just ended was given.
CommandOf(rec) == [command |-> rec.arg, payload |-> rec.payload]

\* The guest's decide returned a DomainError to the call that just ended: the
\* contract call was made with fuel left and the guest answered with an error.
DecideFailed(s) ==
  /\ Ended(s) /\ last'.op = "execute_command"
  /\ last'.inst \in Handles(instances[s])
  /\ TableGet(modules[s], InstanceOf(instances[s], last'.inst).module).fuel > 0
  /\ GuestHandle(InstanceOf(instances[s], last'.inst).state, CommandOf(last')).kind = "err"

\* C4: when decide returns a DomainError, execute_command returns -1, the
\* serialized error is the session's scratch buffer (cursor 0), the instance
\* state is what it was and no row is added.
C4_DomainError ==
  [][\A s \in Sessions :
       DecideFailed(s) =>
         LET before == InstanceOf(instances[s], last'.inst)
             e == GuestHandle(before.state, CommandOf(last')).val
         IN  /\ last'.status = "ret" /\ last'.ret = -1
             /\ scratch'[s] = [read_ptr |-> 0,
                                buffer |-> LE(Len(Utf8(ErrorDisplay(e))), 8)
                                             \o Utf8(ErrorDisplay(e))]
             /\ InstanceOf(instances'[s], last'.inst).state = before.state
             /\ instances'[s].next = instances[s].next
             /\ db' = db]_vars

\* A command was refused after the instance had already appended an event.
C4_Witness ==
  /\ last.op = "execute_command" /\ last.why = "decide_err" /\ last.ret = -1
  /\ last.arg = "close"
  /\ db # {}
  /\ Len(last.pre) > Len(Utf8(WarmId))
  /\ scratch[last.session] # None

\* ---------------------------------------------------------------------- C5
\* C5: an INSERT step whose stream nobody appended to since the version was
\* read persists one row per proposed event, the i-th (from 0) at version
\* read + 1 + i, and the call returns the number of events.
C5_BatchPersisted ==
  [][\A s \in Sessions :
       (Inserts(s) /\ SelectMaxVersion(db, cur[s].stream) = cur[s].version) =>
         LET ev == cur[s].events
             rows == {[stream |-> cur[s].stream, version |-> cur[s].version + i,
                       type |-> ev[i].event_type, body |-> ev[i].payload] :
                        i \in 1 .. Len(ev)}
         IN  /\ last'.status = "ret" /\ last'.ret = Len(ev)
             /\ db' = db \cup rows
             /\ Cardinality(db') = Cardinality(db) + Len(ev)]_vars

\* ---------------------------------------------------------------------- C6
\* C6: load_events with fromVersion < 0 stages the serialized full history of
\* the stream, the events at versions 0, 1, 2, ... in that order.
C6_FullHistoryAscending ==
  [][\A s \in Sessions :
       (Ended(s) /\ last'.op = "load_events" /\ last'.status = "ret"
          /\ last'.base < 0) =>
         /\ Len(last'.order) = Cardinality(StreamRows(db, last'.stream))
         /\ \A i \in DOMAIN last'.order : last'.order[i].version = i - 1
         /\ scratch'[s] = [read_ptr |-> 0, buffer |-> SerializeEvents(last'.order)]]_vars

\* ---------------------------------------------------------------------- C7
\* C7: a successful init_module adds an instance whose state is
\* replay(initialize(id), the stream's events in version order).
C7_InitReplaysHistory ==
  [][\A s \in Sessions :
       (Ended(s) /\ last'.op = "init_module" /\ last'.status = "ret"
          /\ last'.ret >= 0) =>
         /\ instances'[s].next = instances[s].next + 1
         /\ last'.ret = instances[s].next
         /\ Ok(InstanceOf(instances'[s], last'.ret).state)
              = Replayed(db, last'.stream, last'.arg)]_vars

\* ---------------------------------------------------------------------- C8
\* What the reads since the last staging have copied out is the staged
\* buffer's prefix of the total length asked for, capped at its length.
C8_Prefix ==
  \A s \in Sessions :
    scratch[s] # None =>
      out[s] = SubSeq(scratch[s].buffer, 1, Min(asked[s], Len(scratch[s].buffer)))

C8_Read ==
  \A s \in Sessions :
    (Ended(s) /\ last'.op = "read_events_data" /\ last'.status = "ret") =>
      /\ scratch'[s] # None /\ scratch'[s].buffer = scratch[s].buffer
      /\ out'[s] = out[s] \o SubSeq(scratch[s].buffer, Len(out[s]) + 1,
                                    Len(out[s]) + last'.ret)
      /\ asked[s] >= Len(scratch[s].buffer) => (last'.ret = 0 /\ out'[s] = scratch[s].buffer)

\* C8: reads of any lengths return, concatenated, the staged bytes in order,
\* all of them once the lengths asked for add up to the buffer's length; every
\* read after that returns 0.
C8_RoundTrip == [] C8_Prefix /\ [][C8_Read]_vars

\* A staged error was drained and a further read of 5 bytes returned 0.
C8_Witness ==
  \E s \in Sessions :
    /\ scratch[s] # None
    /\ Len(scratch[s].buffer) > 8
    /\ out[s] = scratch[s].buffer
    /\ asked[s] > Len(scratch[s].buffer)
    /\ last.session = s /\ last.op = "read_events_data" /\ last.ret = 0 /\ last.base = 5

\* ---------------------------------------------------------------------- C9
\* The guest's decide returned an empty list of events to the call that just
\* ended.
DecidedNothing(s) ==
  /\ Ended(s) /\ last'.op = "execute_command"
  /\ last'.inst \in Handles(instances[s])
  /\ TableGet(modules[s], InstanceOf(instances[s], last'.inst).module).fuel > 0
  /\ GuestHandle(InstanceOf(instances[s], last'.inst).state, CommandOf(last')) = Ok(<<>>)

\* The replay call that follows decide is not aborted for lack of fuel.
ReplayRuns(s) ==
  TableGet(modules[s], InstanceOf(instances[s], last'.inst).module).fuel > 1

Unchanged9(s) ==
  LET before == InstanceOf(instances[s], last'.inst)
  IN  /\ InstanceOf(instances'[s], last'.inst).state = before.state
      /\ SelectMaxVersion(db', before.stream) = SelectMaxVersion(db, before.stream)
      /\ db' = db

ReplayFailed(s) ==
  /\ Ended(s) /\ last'.op = "execute_command"
  /\ last'.inst \in Handles(instances[s])
  /\ TableGet(modules[s], InstanceOf(instances[s], last'.inst).module).fuel > 1
  /\ LET st == InstanceOf(instances[s], last'.inst).state
         d == GuestHandle(st, CommandOf(last'))
     IN  d.kind = "ok" /\ GuestApply(st, d.val).kind = "err"

\* C10: a replay failure after a successful decide ends execute_command as a
\* host fault, never as the -1 result with a staged error.
C10_ReplayFailureIsFatal ==
  [][\A s \in Sessions :
       ReplayFailed(s) => (last'.status = "fault" /\ scratch'[s] = scratch[s])]_vars

\* --------------------------------------------------------------------- C11
\* C11: execute_command returns -1 only when the guest itself answered decide
\* or replay with a DomainError; a call the sandbox aborted for lack of fuel
\* ends as a host fault, never as -1.
C11_MinusOneOnlyDomainError ==
  [][\A s \in Sessions :
       (Ended(s) /\ last'.op = "execute_command"
          /\ last'.inst \in Handles(instances[s])) =>
         LET inst == InstanceOf(instances[s], last'.inst)
             fuel == TableGet(modules[s], inst.module).fuel
             d == GuestHandle(inst.state, CommandOf(last'))
             aborted == \/ fuel = 0
                        \/ fuel = 1 /\ d.kind = "ok"
         IN  /\ aborted => last'.status = "fault"
             /\ (last'.status = "ret" /\ last'.ret = -1) =>
                  \/ d.kind = "err"
                  \/ d.kind = "ok" /\ GuestApply(inst.state, d.val).kind = "err"]_vars

\* --------------------------------------------------------------------- C12
\* The rows the INSERT of session s is about to write collide with the key
\* (stream, version) of a row of the table.
Conflicting(s) ==
  /\ pc[s] = "insert"
  /\ UniqueViolation(db, BindRows(cur[s].stream, cur[s].version, cur[s].events))

\* C12: an INSERT that violates the unique key ends the call as a host fault,
\* persists none of its rows, and the call never goes back to re-read the
\* version: a faulted call takes no further step.
C12_ConflictIsFatal ==
  [][\A s \in Sessions :
       /\ (Conflicting(s) /\ pc'[s] # pc[s]) =>
            /\ pc'[s] = "fault"
            /\ last'.session = s /\ last'.op = "execute_command"
            /\ last'.status = "fault"
            /\ db' = db
       /\ pc[s] = "fault" => (pc'[s] = "fault" /\ cur'[s] = cur[s])]_vars

\* A call lost the race for version 0 and ended in the key conflict.
C12_Witness ==
  /\ last.op = "execute_command" /\ last.status = "fault" /\ last.why = "conflict"
  /\ Len(last.events) = 1
  /\ \E r \in db : r.stream = last.stream /\ r.version = last.base + 1
  /\ pc[last.session] = "fault"

\* --------------------------------------------------------------------- C13
\* C13: load_events with fromVersion K >= 0 stages exactly the stream's events
\* of version >= K, in ascending version order, and none of version < K.
C13_FromVersionFilters ==
  [][\A s \in Sessions :
       (Ended(s) /\ last'.op = "load_events" /\ last'.status = "ret"
          /\ last'.base >= 0) =>
         LET K == last'.base
             staged == last'.order
         IN  /\ \A i \in DOMAIN staged : staged[i].version >= K
             /\ {staged[i].version : i \in DOMAIN staged}
                  = {r.version : r \in {q \in StreamRows(db, last'.stream) : q.version >= K}}
             /\ \A i, j \in DOMAIN staged : i < j => staged[i].version < staged[j].version
             /\ scratch'[s] = [read_ptr |-> 0, buffer |-> SerializeEvents(staged)]]_vars

\* --------------------------------------------------------------------- C14
\* Files load_module cannot make a module of: the file is missing, is no
\* valid binary, or lacks the contract's exports.
BadFiles == {"missing.wasm", "invalid.wasm", "no-exports.wasm"}

\* C14: load_module returns -1 and leaves the module table as it was for a
\* missing file, an invalid binary and a module without the contract's
\* exports; for any other file it returns a fresh handle >= 0.
C14_LoadErrorIsMinusOne ==
  [][\A s \in Sessions :
       (Ended(s) /\ last'.op = "load_module") =>
         /\ last'.status = "ret"
         /\ IF last'.arg \in BadFiles
            THEN last'.ret = -1 /\ modules'[s] = modules[s]
            ELSE /\ last'.ret = modules[s].next /\ last'.ret >= 0
                 /\ modules'[s].next = modules[s].next + 1]_vars

\* --------------------------------------------------------------------- C15
\* The callers whose contract call is in progress inside the Store.
Inside == {c \in Callers : calls[c].pc \in {"inside", "returned"}}

\* C15: at most one contract call (initialize, replay or decide) is in
\* progress inside the module's execution context, whether made through the
\* Module or through any of its instances, and it is the lock holder's.
C15_OneCallInside ==
  /\ Cardinality(Inside) <= 1
  /\ \A c \in Inside : store_lock = c
  /\ store_lock = "free" => Inside = {}

\* A decide is in progress while the Module and the other instance wait.
C15_Witness ==
  /\ calls["instance-0"] = [pc |-> "inside", op |-> "handle"]
  /\ calls["module"].pc = "waiting"
  /\ calls["instance-1"] = [pc |-> "waiting", op |-> "apply"]
  /\ TableGet(modules[CtxSession], CtxModule).fuel < MaxFuel - 2

\* --------------------------------------------------------------------- C16
\* C16: stream_version returns the highest persisted version of the stream,
\* -1 for a stream without events; every committed single-event
\* execute_command returns 1 and adds one row, so after n of them on an empty
\* stream stream_version returns n - 1.
C16_StreamVersion ==
  [][\A s \in Sessions :
       /\ (Ended(s) /\ last'.op = "stream_version" /\ last'.status = "ret") =>
            LET rows == StreamRows(db, last'.stream)
            IN  /\ rows = {} => last'.ret = -1
                /\ rows # {} => /\ \E r \in rows : r.version = last'.ret
                                /\ \A r \in rows : r.version <= last'.ret
                /\ last'.ret = Cardinality(rows) - 1
       /\ (Inserts(s) /\ last'.status = "ret" /\ Len(cur[s].events) = 1) =>
            /\ last'.ret = 1
            /\ Cardinality(StreamRows(db', cur[s].stream))
                 = Cardinality(StreamRows(db, cur[s].stream)) + 1]_vars

\* Two deposits were committed on the empty stream and stream_version
\* returned 1.
C16_Witness ==
  /\ last.op = "stream_version" /\ last.status = "ret" /\ last.ret = 1
  /\ Cardinality(StreamRows(db, last.stream)) = 2
  /\ \A r \in StreamRows(db, last.stream) : r.type = "dep"

\* --------------------------------------------------------------------- C17
\* The init_module that just ended was given a module handle of the table,
\* whose context had fuel for the call.
InitRan(s) ==
  /\ Ended(s) /\ last'.op = "init_module"
  /\ last'.base \in Handles(modules[s])
  /\ TableGet(modules[s], last'.base).fuel > 0

\* C17: when the guest's initialize returns a DomainError, init_module
\* returns -1, the instance table and its next handle are as they were, and
\* the event table is not modified.
C17_InitDomainError ==
  [][\A s \in Sessions :
       (InitRan(s) /\ GuestInit(last'.arg).kind = "err") =>
         /\ last'.status = "ret" /\ last'.ret = -1
         /\ instances'[s] = instances[s]
         /\ db' = db]_vars

\* initialize refused the id in a session that already holds an instance,
\* with events in the table.
C17_Witness ==
  /\ last.op = "init_module" /\ last.status = "ret" /\ last.ret = -1
  /\ last.why = "err" /\ last.arg = ""
  /\ instances[last.session].next = 1
  /\ db # {}

\* --------------------------------------------------------------------- C18
\* initialize succeeded, the history was fetched, and its replay failed: the
\* guest rejected an event, or the sandbox aborted the call for lack of fuel.
InitReplayFailed(s) ==
  /\ InitRan(s) /\ pool[s]
  /\ GuestInit(last'.arg).kind = "ok"
  /\ \/ TableGet(modules[s], last'.base).fuel = 1
     \/ GuestApply(GuestInit(last'.arg).val, EventRefs(last'.order)).kind = "err"

\* C18: when the replay of the persisted history fails in init_module, the
\* call ends as a host fault, not with -1, and no instance handle is
\* allocated.
C18_InitReplayFailureIsFatal ==
  [][\A s \in Sessions :
       InitReplayFailed(s) =>
         /\ last'.status = "fault"
         /\ pc'[s] = "fault"
         /\ instances'[s] = instances[s]]_vars

\* The replay of a stream holding an event failed in init_module.
C18_Witness ==
  /\ last.op = "init_module" /\ last.status = "fault"
  /\ last.why \in {"apply_err", "apply_trap"}
  /\ Len(last.order) >= 1
  /\ instances[last.session].next = 1

\* --------------------------------------------------------------------- C19
\* The step stages a buffer for session s: a load_events that returned, or an
\* execute_command that returned -1.
Stages(s) ==
  /\ Ended(s) /\ last'.status = "ret"
  /\ \/ last'.op = "load_events"
     \/ last'.op = "execute_command" /\ last'.ret = -1

C19_Slot ==
  \A s \in Sessions :
    \* a read with an empty slot is a host fault
    /\ (Ended(s) /\ last'.op = "read_events_data" /\ scratch[s] = None) =>
         (last'.status = "fault" /\ last'.why = "no_scratch")
    \* a read with a staged buffer does not fault for lack of a buffer
    /\ (Ended(s) /\ last'.op = "read_events_data" /\ scratch[s] # None) =>
         last'.why # "no_scratch"
    \* the slot is filled by the staging operations only
    /\ (scratch[s] = None /\ scratch'[s] # None) => Stages(s)
    \* and it is never cleared under a session that goes on
    /\ (scratch[s] # None /\ pc'[s] # "fault") => scratch'[s] # None

\* C19: a read in a session where nothing has been staged yet is a host
\* fault; once a buffer is staged no later read of the session faults for
\* lack of a buffer, because no read leaves the slot empty behind it.
C19_ReadNeedsStaging ==
  [] (\A s \in Sessions : (pc[s] = "idle" /\ budget = MaxOps) => scratch[s] = None)
    /\ [][C19_Slot]_vars

\* A session read its staged buffer to the end and read again, and another
\* session's read without a staged buffer has faulted.
C19_Witness ==
  \E s, t \in Sessions :
    /\ last.session = s /\ last.op = "read_events_data" /\ last.status = "ret"
    /\ scratch[s] # None /\ scratch[s].read_ptr = Len(scratch[s].buffer)
    /\ asked[s] > Len(scratch[s].buffer)
    /\ pc[t] = "fault" /\ scratch[t] = None

\* --------------------------------------------------------------------- C20
\* The call that just ended was given a handle its table never handed out.
UnknownHandle(s) ==
  /\ Ended(s)
  /\ \/ last'.op = "init_module" /\ last'.base \notin Handles(modules[s])
     \/ last'.op = "execute_command" /\ last'.inst \notin Handles(instances[s])

\* C20: init_module with an unknown module handle and execute_command with an
\* unknown instance handle end as a host fault, never as -1, and change no
\* instance, no module, no row and no scratch buffer.
C20_UnknownHandleIsFatal ==
  [][\A s \in Sessions :
       UnknownHandle(s) =>
         /\ last'.status = "fault" /\ pc'[s] = "fault"
         /\ instances' = instances
         /\ modules' = modules
         /\ db' = db
         /\ scratch' = scratch]_vars

\* execute_command with a handle past the session's only instance faulted
\* after that instance had committed an event.
C20_Witness ==
  /\ last.op = "execute_command" /\ last.status = "fault" /\ last.why = "handle"
  /\ last.inst = 1 /\ instances[last.session].next = 1
  /\ StreamRows(db, WarmStream) # {}

\* init_module with a module handle the session never got faulted.
C20_WitnessInit ==
  /\ last.op = "init_module" /\ last.status = "fault" /\ last.why = "handle"
  /\ last.base = modules[last.session].next

\* --------------------------------------------------------------------- C21
\* Every handle of table t is a handle of t2 and resolves to the same entry,
\* as far as `same` compares entries.
Kept(t, t2, same(_, _)) ==
  /\ t2.next >= t.next
  /\ \A h \in Handles(t) : same(TableGet(t, h), TableGet(t2, h))

SameInstance(a, b) == a.stream = b.stream /\ a.id = b.id /\ a.module = b.module

SameModule(a, b) == TRUE

\* C21: successive successful load_module calls of a session return 0, 1, 2,
\* ..., and so do its successful init_module calls; a handle once returned
\* keeps resolving to the entry it was allocated for.
C21_Allocation ==
  [][\A s \in Sessions :
       /\ Kept(modules[s], modules'[s], SameModule)
       /\ Kept(instances[s], instances'[s], SameInstance)
       /\ (Ended(s) /\ last'.op = "load_module" /\ last'.status = "ret"
             /\ last'.ret >= 0) =>
            /\ last'.ret = modules[s].next
            /\ modules'[s].next = last'.ret + 1
            /\ TableGet(modules'[s], last'.ret).fuel \in FuelChoices
            /\ \A h \in Handles(modules[s]) :
                 TableGet(modules'[s], h) = TableGet(modules[s], h)
       /\ (Ended(s) /\ last'.op = "init_module" /\ last'.status = "ret"
             /\ last'.ret >= 0) =>
            /\ last'.ret = instances[s].next
            /\ instances'[s].next = last'.ret + 1
            /\ LET i == TableGet(instances'[s], last'.ret)
               IN  i.stream = last'.stream /\ i.id = last'.arg /\ i.module = last'.base
       /\ (modules'[s].next # modules[s].next) =>
            (Ended(s) /\ last'.op = "load_module" /\ last'.ret >= 0)
       /\ (instances'[s].next # instances[s].next) =>
            (Ended(s) /\ last'.op = "init_module" /\ last'.ret >= 0)]_vars

\* A session holds two modules and two instances on different streams, the
\* second instance made from the second module.
C21_Witness ==
  \E s \in Sessions :
    /\ modules[s].next = 2 /\ instances[s].next = 2
    /\ TableGet(instances[s], 0).stream # TableGet(instances[s], 1).stream
    /\ TableGet(instances[s], 1).module = 1
    /\ last.session = s /\ last.op = "init_module" /\ last.ret = 1

\* --------------------------------------------------------------------- C22
\* The text is non-empty, made of lowercase letters and hyphens only, neither
\* begins nor ends with a hyphen and has no two hyphens in a row.
WellFormedName(w) ==
  /\ w # <<>>
  /\ \A i \in DOMAIN w : w[i] \in Lower \cup {"-"}
  /\ w[1] # "-" /\ w[Len(w)] # "-"
  /\ \A i \in 1 .. (Len(w) - 1) : ~(w[i] = "-" /\ w[i + 1] = "-")

\* C22: ModuleName::new accepts a string exactly when it is non-empty, made of
\* lowercase letters and hyphens, without a hyphen at either end and without
\* two hyphens in a row; it rejects every other string.
C22_ModuleName ==
  module_name.result # "none" =>
    /\ module_name.result \in {"ok", "err"}
    /\ module_name.result = "ok" <=> WellFormedName(module_name.text)

\* A name with single hyphens between its letters was accepted.
C22_Witness ==
  /\ module_name.result = "ok"
  /\ module_name.text = <<"a", "-", "z", "a">>

\* --------------------------------------------------------------------- C23
\* The cursor of every staged buffer lies within the buffer.
C23_CursorInRange ==
  \A s \in Sessions :
    scratch[s] # None =>
      (0 <= scratch[s].read_ptr /\ scratch[s].read_ptr <= Len(scratch[s].buffer))

C23_ReadStep ==
  \A s \in Sessions :
    /\ (Ended(s) /\ last'.op = "read_events_data" /\ last'.status = "ret") =>
         LET sc == scratch[s]
             n == Min(Len(sc.buffer) - sc.read_ptr, last'.base)
         IN  /\ last'.ret = n
             /\ out'[s] = out[s] \o SubSeq(sc.buffer, sc.read_ptr + 1, sc.read_ptr + n)
             /\ scratch'[s] = [sc EXCEPT !.read_ptr = sc.read_ptr + n]
    /\ (scratch[s] # None /\ scratch'[s] # None /\ ~Stages(s)) =>
         /\ scratch'[s].read_ptr >= scratch[s].read_ptr
         /\ scratch'[s].buffer = scratch[s].buffer

\* C23: a read asking for L bytes copies min(len - cursor, L) bytes from the
\* cursor on, advances the cursor by that count and returns it; the cursor
\* stays within 0 .. len and does not decrease between two stagings.
C23_ReadCopiesMin == [] C23_CursorInRange /\ [][C23_ReadStep]_vars

\* Of a staged buffer of 8 bytes a read of 5 found 3 left and returned 3.
C23_Witness ==
  /\ last.op = "read_events_data" /\ last.status = "ret"
  /\ last.base = 5 /\ last.ret = 3
  /\ scratch[last.session].read_ptr = 8
  /\ Len(scratch[last.session].buffer) = 8

\* --------------------------------------------------------------------- C24
\* The payload the staging step of session s serializes: the fetched events,
\* or the text of the error handle_and_apply ended with.
StagedPayload(s) ==
  IF last'.op = "load_events"
  THEN SerializeEvents(last'.order)
  ELSE LET inst == InstanceOf(instances[s], last'.inst)
           r == HandleAndApply(inst.state, TableGet(modules[s], inst.module).fuel,
                               CommandOf(last'))
       IN  SerializeString(r.res.val)

C24_Step ==
  \A s \in Sessions :
    \* staging puts the new payload in the slot, cursor 0, whatever was there
    /\ Stages(s) =>
         /\ scratch'[s] = [read_ptr |-> 0, buffer |-> StagedPayload(s)]
         /\ out'[s] = <<>>
    \* a read copies bytes of the buffer now in the slot only
    /\ (Ended(s) /\ last'.op = "read_events_data" /\ last'.status = "ret") =>
         out'[s] = SubSeq(scratch'[s].buffer, 1, scratch'[s].read_ptr)

\* What the reads since the last staging copied is the start of the buffer
\* now in the slot, up to its cursor.
C24_OnlyNewBytes ==
  \A s \in Sessions :
    scratch[s] # None => out[s] = SubSeq(scratch[s].buffer, 1, scratch[s].read_ptr)

\* C24: load_events and an execute_command returning -1 replace the session's
\* scratch slot by the new payload with cursor 0; the reads that follow return
\* bytes of the new payload from its start and none of the previous one.
C24_StagingReplaces == [] C24_OnlyNewBytes /\ [][C24_Step]_vars

\* load_events put the empty history in the slot, cursor 0, as the second
\* call after the warm start; the session's first call had made one guest
\* call that was refused, as a command whose error is staged is.
C24_Witness ==
  /\ last.op = "load_events" /\ last.status = "ret"
  /\ budget = MaxWarmOps - 2
  /\ TableGet(modules[last.session], 0).fuel = WarmInstance.fuel - 1
  /\ scratch[last.session] = [read_ptr |-> 0, buffer |-> SerializeEvents(<<>>)]


\* --------------------------------------------------------------------- C25
\* C25: a contract call enters the execution context only when the call
\* before it, whatever its outcome (a result, a DomainError or an abort), has
\* had its post-return step run.
C25_FinalizeBeforeNextCall ==
  [][\A c \in Callers :
       (calls[c].pc = "waiting" /\ calls'[c].pc = "inside") => ~unfinalized]_vars


\* --------------------------------------------------------------------- C26
\* Session s runs the handle_and_apply of an execute_command on instance h in
\* this step.
HandlesAndApplies(s, h) ==
  /\ pc[s] = "idle"
  /\ \/ Ended(s) /\ last'.op = "execute_command" /\ last'.inst = h
     \/ pc'[s] = "select" /\ cur'[s].inst = h

\* The command of that step.
C26_Command(s) ==
  IF pc'[s] = "select"
  THEN [command |-> cur'[s].command, payload |-> cur'[s].payload]
  ELSE CommandOf(last')

\* The state the instance is to have after a handle_and_apply that found it
\* in state `state` with `fuel` calls left: the bytes replay returned when
\* decide and replay both returned, the state as it was in every other case.
C26_Expected(state, fuel, command) ==
  LET d == GuestHandle(state, command)
  IN  IF fuel >= 2 /\ d.kind = "ok" /\ GuestApply(state, d.val).kind = "ok"
      THEN GuestApply(state, d.val).val
      ELSE state

\* C26: the state of an instance changes only in the replay of a
\* handle_and_apply on that instance, and only when decide and replay both
\* returned, to exactly the bytes replay returned; a refused or aborted decide
\* and a failed replay leave it as it was, and so does every other operation.
C26_StateOnlyThroughReplay ==
  [][\A s \in Sessions : \A h \in Handles(instances[s]) :
       /\ h \in Handles(instances'[s])
       /\ LET inst == InstanceOf(instances[s], h)
              new == InstanceOf(instances'[s], h).state
          IN  IF HandlesAndApplies(s, h)
              THEN new = C26_Expected(inst.state,
                                      TableGet(modules[s], inst.module).fuel,
                                      C26_Command(s))
              ELSE new = inst.state]_vars

\* A replay has failed after decide proposed an event, and the instance still
\* has the state it had before the call.
C26_Witness ==
  /\ last.op = "execute_command" /\ last.why = "apply_err"
  /\ last.inst \in Handles(instances[last.session])
  /\ InstanceOf(instances[last.session], last.inst).state = last.pre
  /\ last.pre # <<>>


\* --------------------------------------------------------------------- C27
\* No host call of session s is in flight.
C27_AtRest(s) == pc[s] \in {"idle", "fault"}

\* A session with no host call in flight has no connection checked out, a
\* call in flight has at most one, and no execution-context lock is held
\* across host calls.
C27_NothingHeld ==
  /\ \A s \in Sessions : conns[s] \in {0, 1} /\ (C27_AtRest(s) => conns[s] = 0)
  /\ (\A s \in Sessions : C27_AtRest(s)) => store_lock = "free"

\* A host call ends with what it took given back.
C27_EndReleases ==
  \A s \in Sessions :
    Ended(s) => /\ conns'[s] = 0
                /\ \A t \in Sessions \ {s} : conns'[t] = conns[t]
                /\ store_lock' = "free" /\ store_lock' = store_lock

C28_CallsEnd ==
  \A c \in Callers :
    /\ calls[c].pc = "inside" ~> calls[c].pc = "idle"
    /\ calls[c].pc = "inside" ~> store_lock # c
    /\ calls[c].pc = "waiting" ~> calls[c].pc = "inside"

\* A call is inside the guest with the fuel used up, about to be aborted,
\* while another caller waits for the lock.
C28_Witness ==
  \E c, d \in Callers :
    /\ calls[c].pc = "inside" /\ CtxFuel = 0
    /\ calls[d].pc = "waiting"


\* --------------------------------------------------------------------- C29
\* The execute_command of session s faults in this step at its persistence:
\* no connection, a statement the store refuses, or an append conflict.
PersistenceFaults(s) ==
  /\ Ended(s) /\ last'.op = "execute_command" /\ last'.status = "fault"
  /\ last'.why \in {"no_pool", "syntax", "conflict"}

\* The state of instance h of session s in a table of instances.
C29_State(table, s, h) == InstanceOf(table[s], h).state

\* C29: execute_command has replaced the instance state by the replay output
\* when it turns to the store, no later step of the call puts the old state
\* back, and when the persistence faults the instance state is
\* replay(state before the call, proposed events) while the call has
\* persisted none of those events.
C29_StateAheadOfStore ==
  [][\A s \in Sessions :
       /\ (pc[s] = "idle" /\ pc'[s] = "select") =>
            /\ C29_State(instances', s, cur'[s].inst)
                 = GuestApply(cur'[s].pre, cur'[s].events).val
            /\ cur'[s].pre = C29_State(instances, s, cur'[s].inst)
            /\ db' = db
       /\ pc[s] \in {"select", "insert"} => instances'[s] = instances[s]
       /\ PersistenceFaults(s) =>
            /\ last'.events # <<>>
            /\ GuestApply(last'.pre, last'.events).kind = "ok"
            /\ C29_State(instances', s, last'.inst)
                 = GuestApply(last'.pre, last'.events).val
            /\ db' = db]_vars

\* An append has lost against another session's, and the instance that lost
\* is in the state its own events lead to, which the store does not hold.
C29_Witness ==
  /\ last.op = "execute_command" /\ last.status = "fault" /\ last.why = "conflict"
  /\ last.events # <<>>
  /\ C29_State(instances, last.session, last.inst)
       = GuestApply(last.pre, last.events).val
  /\ C29_State(instances, last.session, last.inst) # last.pre


\* --------------------------------------------------------------------- C30
\* A session that has an instance handle has a store connected.
C30_HandleImpliesPool ==
  \A s \in Sessions : Handles(instances[s]) # {} => pool[s]

\* A handle is allocated only by a session with a pool, a connect_db that
\* returns 1 leaves the pools as they were, and no step takes a pool away.
C30_Step ==
  \A s \in Sessions :
    /\ instances'[s].next # instances[s].next => pool[s] /\ pool'[s]
    /\ (Ended(s) /\ last'.op = "connect_db" /\ last'.ret = 1) => pool' = pool
    /\ pool[s] => pool'[s]

\* C30: in every reachable state a session that holds at least one instance
\* handle has a store connected: init_module allocates the handle only after
\* it got a connection, a connect_db that fails (result 1) leaves the pool
\* connected before in place, and no operation disconnects.
C30_InstanceNeedsStore == [] C30_HandleImpliesPool /\ [][C30_Step]_vars

\* A session that has an instance has just failed to connect again, and is
\* still connected.
C30_Witness ==
  /\ last.op = "connect_db" /\ last.ret = 1
  /\ Handles(instances[last.session]) # {}
  /\ pool[last.session]


\* --------------------------------------------------------------------- C31
\* An execute_command of session s returns a count of events (0 or more) in
\* this step.
C31_Succeeds(s) ==
  /\ Ended(s) /\ last'.op = "execute_command"
  /\ last'.status = "ret" /\ last'.ret >= 0

\* C31: an execute_command that succeeds leaves the session's scratch slot as
\* it was, bytes and cursor, or empty: neither the step that decides, nor the
\* steps at the store, nor the return stage the proposed events, so that the
\* next read finds what the staging operation before left, or nothing.
C31_SuccessStagesNothing ==
  [][\A s \in Sessions :
       /\ C31_Succeeds(s) => scratch'[s] = scratch[s]
       /\ (pc[s] = "idle" /\ pc'[s] = "select") => scratch'[s] = scratch[s]
       /\ pc[s] \in {"select", "insert"} => scratch'[s] = scratch[s]]_vars

\* A command has persisted its event while the slot holds what an earlier
\* operation staged.
C31_Witness ==
  /\ last.op = "execute_command" /\ last.status = "ret" /\ last.ret >= 1
  /\ scratch[last.session] # None


\* --------------------------------------------------------------------- C32
\* Session s runs init_module in this step.
C32_Inits(s) == pc[s] = "idle" /\ Ended(s) /\ last'.op = "init_module"

\* C32: an execute_command on handle h changes at most the state of instance
\* h: every other instance of the session, of the same module or stream or
\* not, keeps its state, every handle keeps its stream, id and module, and
\* the instances of the other sessions are as they were; an init_module
\* changes no instance that existed.
C32_OthersUntouched ==
  [][\A s \in Sessions : \A h \in Handles(instances[s]) :
       /\ h \in Handles(instances'[s])
       /\ SameInstance(InstanceOf(instances[s], h), InstanceOf(instances'[s], h))
       /\ InstanceOf(instances'[s], h).state # InstanceOf(instances[s], h).state
            => HandlesAndApplies(s, h)
       /\ C32_Inits(s) => InstanceOf(instances'[s], h) = InstanceOf(instances[s], h)]_vars

\* A session has two instances of one module on one stream; a command on one
\* of them has persisted its event and moved its state, and the other is
\* where it was.
C32_Witness ==
  /\ last.op = "execute_command" /\ last.status = "ret" /\ last.ret >= 1
  /\ \E h, k \in Handles(instances[last.session]) :
       LET a == InstanceOf(instances[last.session], h)
           b == InstanceOf(instances[last.session], k)
       IN  /\ h # k /\ last.inst = h
           /\ a.module = b.module /\ a.stream = b.stream
           /\ a.state # last.pre
           /\ b.state = last.pre


\* --------------------------------------------------------------------- C33
\* Session s is in a host function that has not ended.
ResBusy(s) == pc[s] \notin {"idle", "fault"}

\* Session s waits for something that is not to be had now.
ResBlocked(s) ==
  \/ pc[s] \in ResWaitsLock /\ store_lock # "free"
  \/ pc[s] \in ResWaitsConn /\ ResFree = 0

\* C33: no host function waits for a connection of the pool while it holds
\* the execution-context lock (the lock is held inside the guard's block
\* only), so the sessions never all wait for one another: while any host
\* function is under way, one of them can take its next step.
C33_NoLockHeldWaitingForConnection ==
  /\ \A s \in Sessions :
       /\ pc[s] \in ResWaitsConn => store_lock # s
       /\ store_lock = s <=> pc[s] \in ResHoldsLock
  /\ ResFree >= 0
  /\ (\E s \in Sessions : ResBusy(s)) =>
       \E s \in Sessions : ResBusy(s) /\ ~ResBlocked(s)

\* An init_module holds the last connection of the pool and waits for the
\* lock, which an execute_command holds for its replay.
C33_Witness ==
  \E s, t \in Sessions :
    /\ pc[s] = "init:lock-apply" /\ conns[s] = 1 /\ ResFree = 0
    /\ pc[t] = "exec:in-apply" /\ store_lock = t

====
